---- MODULE Spec2Model ----
(***************************************************************************)
(* ShuttlePassengerClient, app/main.py: the shared httpx client and its    *)
(* startup/shutdown hooks, the three proxy endpoints /meta, /stops and     *)
(* /vehicles, and the route_list page.                                     *)
(*                                                                         *)
(* A proxy handler is a coroutine that suspends exactly once, at           *)
(* `await client.get(...)`.  It is modelled in two steps: Request runs the *)
(* handler from the framework's parameter validation up to that await,     *)
(* Reply resumes it with the outcome of the outbound call and runs it to   *)
(* the response.  _shutdown suspends once as well, at                      *)
(* `await client.aclose()`.                                                *)
(***************************************************************************)
EXTENDS Integers, Sequences, FiniteSets, TLC

\* Number of request coroutines that can be in flight at once.
NumTasks == 2

Tasks == 1..NumTasks

\* ----------------------------------------------------------------- state
VARIABLES
    client,     \* the global client: None, "open", or "closed" (aclose begun)
    lifespan,   \* the lifecycle hooks: "new", "started", "closing", "stopped"
    shutdownBranch, \* what the last _shutdown did: "none", "close", "skip"
    hookError,  \* a lifecycle hook has raised
    tasks,      \* the request coroutines
    done        \* the request that completed last, with its response

vars == <<client, lifespan, shutdownBranch, hookError, tasks, done>>

\* Python None: a query parameter that is not in the query string, the
\* initial value of the global client.
None == "None"

\* ---------------------------------------------------------------- inputs
Endpoints == {"meta", "stops", "vehicles"}
OrgIds    == {None, "", "1", "2"}
RouteIds  == {None, "", "102"}
OrgArgs   == {None, "abc", "1", "2"}

\* Upstream bodies: a JSON object, and text that is not JSON.
BodyObject == "{\"routeId\": 102}"
BodyHtml   == "<html>"
Bodies     == {BodyObject, BodyHtml}
Statuses   == {200, 404, 500}
\* httpx.TransportError subclasses (connection refused / DNS, timeout).
TransportErrors == {"ConnectError", "ReadTimeout"}

NoOutcome == [kind |-> "none", exc |-> "", status |-> 0, body |-> ""]
Outcomes ==
    [kind : {"transport"}, exc : TransportErrors, status : {0}, body : {""}]
    \cup [kind : {"response"}, exc : {""}, status : Statuses, body : Bodies]

\* ------------------------------------------------------------ JSON values
JsonNone == [kind |-> "none", items |-> <<>>]

\* r.json(): decode the body text, or raise json.JSONDecodeError (a
\* ValueError, not an httpx.HTTPError).
json(text) ==
    CASE text = BodyObject ->
            [ok |-> TRUE, value |-> [kind |-> "object", items |-> << <<"routeId", 102>> >>]]
      [] OTHER ->
            [ok |-> FALSE, value |-> JsonNone]

\* ------------------------------------------------------------- responses
NoDetail == [text |-> "", exc |-> "", status |-> 0]

\* FastAPI's answer to a request that fails its declared parameters
\* (Query(...) is a required parameter; org: int is a required integer).
RequestValidationError ==
    [status |-> 422, cacheControl |-> "", body |-> JsonNone,
     detail |-> [text |-> "validation error", exc |-> "", status |-> 0]]

\* raise HTTPException(status_code=..., detail=...)
HTTPException(status_code, detail) ==
    [status |-> status_code, cacheControl |-> "", body |-> JsonNone, detail |-> detail]

\* An exception no handler catches: the server answers 500 with a fixed
\* text; the exception is not shown to the caller.
InternalServerError ==
    [status |-> 500, cacheControl |-> "", body |-> JsonNone,
     detail |-> [text |-> "Internal Server Error", exc |-> "", status |-> 0]]

\* JSONResponse(content) with no headers argument.
JSONResponse_no_header(content) ==
    [status |-> 200, cacheControl |-> "", body |-> content, detail |-> NoDetail]

\* JSONResponse(content, headers={"Cache-Control": "no-store"})
JSONResponse(content) ==
    [status |-> 200, cacheControl |-> "no-store", body |-> content, detail |-> NoDetail]

\* ---------------------------------------------------------- trace events
NoUrl    == [base |-> "", path |-> ""]
NoParams == [orgId |-> "", routeId |-> ""]

\* logger.info(f"[proxy] -> GET {url} params={...}")
LogRequest(url, params) ==
    [ev |-> "log_request", url |-> url, params |-> params, status |-> 0, exc |-> ""]
\* logger.info(f"[proxy] <- {r.status_code} from {url}")
LogStatus(url, status) ==
    [ev |-> "log_status", url |-> url, params |-> NoParams, status |-> status, exc |-> ""]
\* logger.exception(f"[proxy] upstream error: {e}")
LogException(exc, status) ==
    [ev |-> "log_exception", url |-> NoUrl, params |-> NoParams, status |-> status, exc |-> exc]
\* client.get(url, params=params) leaving the process
Call(url, params) ==
    [ev |-> "call", url |-> url, params |-> params, status |-> 0, exc |-> ""]

\* ------------------------------------------------------- request records
NoResp == [status |-> 0, cacheControl |-> "", body |-> JsonNone, detail |-> NoDetail]

\* A request coroutine: where it is (idle, awaiting the outbound call, done),
\* its inputs, what it has logged and sent so far, the outcome of its
\* outbound call and its response.
Idle ==
    [pc |-> "idle", ep |-> "", orgId |-> None, routeId |-> None,
     trace |-> <<>>, outcome |-> NoOutcome, resp |-> NoResp]

Completed(ep, orgId, routeId, trace, outcome, resp) ==
    [pc |-> "done", ep |-> ep, orgId |-> orgId, routeId |-> routeId,
     trace |-> trace, outcome |-> outcome, resp |-> resp]

Awaiting(ep, orgId, routeId, trace) ==
    [pc |-> "awaiting", ep |-> ep, orgId |-> orgId, routeId |-> routeId,
     trace |-> trace, outcome |-> NoOutcome, resp |-> NoResp]

\* ------------------------------------------------------ lifecycle hooks
\* _startup: client = httpx.AsyncClient(...)
_startup(cl) == "open"

\* _shutdown without its `if client:` test: None.aclose() raises.
_shutdown_unguarded(cl) ==
    IF cl # None
    THEN [client |-> "closed", pc |-> "closing", branch |-> "close", raised |-> FALSE]
    ELSE [client |-> cl, pc |-> "stopped", branch |-> "skip", raised |-> TRUE]

\* _shutdown up to its await: `if client: await client.aclose()`.  aclose
\* marks the client closed before it suspends; the global still refers to
\* it until the hook resumes.  With client None the hook returns at once.
_shutdown(cl) ==
    IF cl # None
    THEN [client |-> "closed", pc |-> "closing", branch |-> "close", raised |-> FALSE]
    ELSE [client |-> cl, pc |-> "stopped", branch |-> "skip", raised |-> FALSE]

\* ------------------------------------------------------- proxy endpoints
\* Python truthiness of `str | None`: None and "" are falsy.
Falsy(s) == s = None \/ s = ""

\* TRUE iff _ensure_params raises HTTPException(400).
_ensure_params(orgId, routeId) == Falsy(orgId) \/ Falsy(routeId)

\* TRUE iff a parameter declared Query(...) is not in the query string: the
\* framework answers 422 and the handler does not run.
MissingQuery(orgId, routeId) == orgId = None \/ routeId = None

\* The three handlers all built from meta_proxy's url.
upstream_url_meta(ep) == [base |-> "UPSTREAM_API_BASE", path |-> "/meta"]

\* url = f"{UPSTREAM_API_BASE}/meta" (and /stops, /vehicles)
upstream_url(ep) ==
    [base |-> "UPSTREAM_API_BASE",
     path |-> CASE ep = "meta" -> "/meta"
                [] ep = "stops" -> "/stops"
                [] ep = "vehicles" -> "/vehicles"]

\* params={"orgId": orgId, "routeId": routeId}
upstream_params(orgId, routeId) == [orgId |-> orgId, routeId |-> routeId]

\* Only meta_proxy logs.
Logs(ep) == ep = "meta"

\* raise_for_status raising for server errors only.
raise_for_status_5xx(status) == status >= 500

\* r.raise_for_status(): raises httpx.HTTPStatusError unless the status is
\* a success status.
raise_for_status(status) == ~(200 <= status /\ status <= 299)

\* The handler from the request's arrival to `await client.get(...)`.
\* client.get on None raises AttributeError, on a closed client
\* RuntimeError; neither is an httpx.HTTPError, so neither is caught.
proxy_begin(ep, orgId, routeId, cl) ==
    LET url    == upstream_url(ep)
        params == upstream_params(orgId, routeId)
        pre    == IF Logs(ep) THEN <<LogRequest(url, params)>> ELSE <<>>
    IN  IF MissingQuery(orgId, routeId)
        THEN Completed(ep, orgId, routeId, <<>>, NoOutcome, RequestValidationError)
        ELSE IF _ensure_params(orgId, routeId)
        THEN Completed(ep, orgId, routeId, <<>>, NoOutcome,
                 HTTPException(400, [text |-> "orgId and routeId are required.",
                                     exc |-> "", status |-> 0]))
        ELSE IF cl = "open"
        THEN Awaiting(ep, orgId, routeId, pre \o <<Call(url, params)>>)
        ELSE Completed(ep, orgId, routeId, pre, NoOutcome, InternalServerError)

\* r kept in a module-level global that the coroutine completing last has
\* overwritten.
received_shared(req, outcome) ==
    IF done.pc = "done" /\ done.outcome.kind # "none" THEN done.outcome ELSE outcome

\* `r = await client.get(...)`: r is a local of the coroutine, bound to the
\* outcome of its own call.
received(req, outcome) == outcome

\* What the handler has logged and sent, and its response.
Handled(trace, resp) == [trace |-> trace, resp |-> resp]

\* The handler calling client.get a second time when the first call fails.
proxy_resume_retry(req, r) ==
    IF r.kind = "transport" \/ raise_for_status(r.status)
    THEN Handled(req.trace \o
                   <<Call(upstream_url(req.ep), upstream_params(req.orgId, req.routeId))>>,
                 HTTPException(502, [text |-> "upstream error: ",
                                     exc |-> r.exc, status |-> r.status]))
    ELSE IF json(r.body).ok
    THEN Handled(req.trace, JSONResponse(json(r.body).value))
    ELSE Handled(req.trace, InternalServerError)

\* The handler from the outcome r of the outbound call to its response.
proxy_resume(req, r) ==
    LET url == upstream_url(req.ep)
        t1  == req.trace \o
               (IF Logs(req.ep) THEN <<LogStatus(url, r.status)>> ELSE <<>>)
    IN  IF r.kind = "transport"
        THEN Handled(req.trace \o
                       (IF Logs(req.ep) THEN <<LogException(r.exc, 0)>> ELSE <<>>),
                     HTTPException(502, [text |-> "upstream error: ",
                                         exc |-> r.exc, status |-> 0]))
        ELSE IF raise_for_status(r.status)
        THEN Handled(t1 \o (IF Logs(req.ep)
                            THEN <<LogException("HTTPStatusError", r.status)>>
                            ELSE <<>>),
                     HTTPException(502, [text |-> "upstream error: ",
                                         exc |-> "HTTPStatusError",
                                         status |-> r.status]))
        ELSE IF json(r.body).ok
        THEN Handled(t1, JSONResponse(json(r.body).value))
        ELSE Handled(t1, InternalServerError)

\* ------------------------------------------------------------ route_list
Route(id, number, type) ==
    [routeId |-> id, routeNumber |-> number, routeType |-> type]

\* The list written in route_list (routeTitle, Hangul text, left out).
ROUTES ==
    << Route(102, "1", "CIRCULATION"),
       Route(191, "1-1", "ROUND_TRIP_DOWN"),
       Route(200, "2", "ROUND_TRIP_UP"),
       Route(201, "2", "ROUND_TRIP_DOWN"),
       Route(282, "2-2", "CIRCULATION"),
       Route(292, "2-1", "CIRCULATION"),
       Route(302, "3", "CIRCULATION"),
       Route(900, "900", "ROUND_TRIP_DOWN") >>

\* `org: int`: the framework converts the query text, or answers 422.
IsInt(org) == org \in {"1", "2"}
IntOf(org) == CASE org = "1" -> 1 [] org = "2" -> 2

\* templates.TemplateResponse("route_list.html", {routes, jump_base}):
\* the template is given the list and jump_base = f"/{org}".
TemplateResponse(name, routes, jump_base) ==
    [status |-> 200, cacheControl |-> "",
     body |-> [kind |-> "html", items |-> <<name, routes, jump_base>>],
     detail |-> NoDetail]

\* route_list answering 502 for an organisation it has no list for.
route_list_502(org) ==
    IF ~IsInt(org)
    THEN Completed("route_list", org, None, <<>>, NoOutcome, RequestValidationError)
    ELSE IF org = "2"
    THEN Completed("route_list", org, None, <<>>, NoOutcome,
             HTTPException(502, [text |-> "invalid payload", exc |-> "", status |-> 0]))
    ELSE Completed("route_list", org, None, <<>>, NoOutcome,
             TemplateResponse("route_list.html", ROUTES, <<"/", IntOf(org)>>))

route_list(org) ==
    IF ~IsInt(org)
    THEN Completed("route_list", org, None, <<>>, NoOutcome, RequestValidationError)
    ELSE Completed("route_list", org, None, <<>>, NoOutcome,
             TemplateResponse("route_list.html", ROUTES, <<"/", IntOf(org)>>))

TypeOK ==
    /\ client \in {None, "open", "closed"}
    /\ lifespan \in {"new", "started", "closing", "stopped"}
    /\ shutdownBranch \in {"none", "close", "skip"}
    /\ hookError \in BOOLEAN
    /\ \A t \in Tasks : tasks[t].pc \in {"idle", "awaiting"}
    /\ done.pc \in {"idle", "done"}

Init ==
    /\ client = None
    /\ lifespan = "new"
    /\ shutdownBranch = "none"
    /\ hookError = FALSE
    /\ tasks = [t \in Tasks |-> Idle]
    /\ done = Idle

\* The lifecycle hooks run one after the other on the lifespan task.
Startup ==
    /\ lifespan # "closing"
    /\ client' = _startup(client)
    /\ lifespan' = "started"
    /\ UNCHANGED <<shutdownBranch, hookError, tasks, done>>

ShutdownBegin ==
    /\ lifespan # "closing"
    /\ LET r == _shutdown(client)
       IN  /\ client' = r.client
           /\ lifespan' = r.pc
           /\ shutdownBranch' = r.branch
           /\ hookError' = (hookError \/ r.raised)
    /\ UNCHANGED <<tasks, done>>

\* _shutdown resumed after aclose: client = None
ShutdownEnd ==
    /\ lifespan = "closing"
    /\ client' = None
    /\ lifespan' = "stopped"
    /\ UNCHANGED <<shutdownBranch, hookError, tasks, done>>

Request(t, ep, orgId, routeId) ==
    /\ tasks[t].pc = "idle"
    /\ LET r == proxy_begin(ep, orgId, routeId, client)
       IN  IF r.pc = "awaiting"
           THEN tasks' = [tasks EXCEPT ![t] = r] /\ UNCHANGED done
           ELSE done' = r /\ UNCHANGED tasks
    /\ UNCHANGED <<client, lifespan, shutdownBranch, hookError>>

Reply(t, outcome) ==
    /\ tasks[t].pc = "awaiting"
    /\ LET h == proxy_resume(tasks[t], received(tasks[t], outcome))
       IN  done' = Completed(tasks[t].ep, tasks[t].orgId, tasks[t].routeId,
                             h.trace, outcome, h.resp)
    /\ tasks' = [tasks EXCEPT ![t] = Idle]
    /\ UNCHANGED <<client, lifespan, shutdownBranch, hookError>>

RouteList(org) ==
    /\ done' = route_list(org)
    /\ UNCHANGED <<client, lifespan, shutdownBranch, hookError, tasks>>

Next ==
    \/ Startup
    \/ ShutdownBegin
    \/ ShutdownEnd
    \/ \E t \in Tasks, ep \in Endpoints, orgId \in OrgIds, routeId \in RouteIds :
          Request(t, ep, orgId, routeId)
    \/ \E t \in Tasks, outcome \in Outcomes : Reply(t, outcome)
    \/ \E org \in OrgArgs : RouteList(org)

Spec == Init /\ [][Next]_vars

(***************************************************************************)
(* Properties                                                              *)
(***************************************************************************)
CallIndices(trace) == {i \in DOMAIN trace : trace[i].ev = "call"}
Calls(trace) == Cardinality(CallIndices(trace))

\* done holds a completed request of a proxy endpoint
ProxyDone == done.pc = "done" /\ done.ep \in Endpoints
\* neither parameter absent or empty
ValidParams(r) == r.orgId \notin {None, ""} /\ r.routeId \notin {None, ""}
\* the upstream answered (no transport failure)
Answered(r) == r.outcome.kind = "response"
Success(status) == 200 <= status /\ status <= 299

\* C1: a request to /meta, /stops or /vehicles whose orgId or routeId is
\* absent or empty is answered 400, and no outbound call is made for it.
C1_InvalidParamsAre400 ==
    (ProxyDone /\ ~ValidParams(done))
        => (done.resp.status = 400 /\ Calls(done.trace) = 0)

\* C2: when the upstream body of a valid request is not valid JSON, the
\* response status is 502, whatever the upstream status.
C2_NonJsonIs502 ==
    (ProxyDone /\ ValidParams(done) /\ Answered(done) /\ ~json(done.outcome.body).ok)
        => done.resp.status = 502

\* C3: when the outbound call of a valid request ends in a transport failure
\* or the upstream answers with a status >= 400, the response is 502 with the
\* cause in its detail (or 404, only when the upstream status is 404), and it
\* is never a success carrying the upstream body.
UpstreamFailed(r) ==
    \/ r.outcome.kind = "transport"
    \/ (r.outcome.kind = "response" /\ r.outcome.status >= 400)

C3_UpstreamFailureIs502 ==
    (ProxyDone /\ ValidParams(done) /\ UpstreamFailed(done))
        => /\ \/ done.resp.status = 502
              \/ (done.resp.status = 404 /\ done.outcome.status = 404)
           /\ done.resp.status = 502 =>
                 /\ done.resp.detail.text = "upstream error: "
                 /\ done.outcome.kind = "transport" =>
                        (done.resp.detail.exc = done.outcome.exc
                         /\ done.resp.detail.exc \in TransportErrors)
                 /\ done.outcome.kind = "response" =>
                        done.resp.detail.status = done.outcome.status
           /\ done.resp.body = JsonNone
           /\ done.resp.cacheControl = ""

C3_Witness ==
    /\ ProxyDone /\ ValidParams(done)
    /\ done.outcome.kind = "response" /\ done.outcome.status = 404
    /\ done.outcome.body = BodyObject
    /\ done.resp.status = 502

\* C4 as claimed: the outbound call goes to the target the org-keyed rule
\* chooses: orgId "1" to UPSTREAM_API_BASE with the path under /user, orgId
\* "2" to UPSTREAM_API_BASE2 with the plain path; orgId and routeId are
\* forwarded unchanged.
PlainPath(ep) ==
    CASE ep = "meta" -> "/meta" [] ep = "stops" -> "/stops" [] ep = "vehicles" -> "/vehicles"
UserPath(ep) ==
    CASE ep = "meta" -> "/user/meta" [] ep = "stops" -> "/user/stops"
      [] ep = "vehicles" -> "/user/vehicles"
OrgKeyedTarget(ep, orgId) ==
    IF orgId = "1"
    THEN [base |-> "UPSTREAM_API_BASE", path |-> UserPath(ep)]
    ELSE [base |-> "UPSTREAM_API_BASE2", path |-> PlainPath(ep)]

\* every outbound call of request r goes to Target(ep, orgId) with r's params
CallsGoTo(r, Target(_, _)) ==
    \A i \in CallIndices(r.trace) :
        /\ r.trace[i].url = Target(r.ep, r.orgId)
        /\ r.trace[i].params = [orgId |-> r.orgId, routeId |-> r.routeId]

\* a valid request handled with the client open has sent its one call
Dispatched(r) == r.pc = "awaiting" => (ValidParams(r) /\ Calls(r.trace) = 1)

FixedTarget(ep, orgId) == [base |-> "UPSTREAM_API_BASE", path |-> PlainPath(ep)]

C5_SuccessNoStoreExactBody ==
    (ProxyDone /\ Success(done.resp.status))
        => /\ done.resp.cacheControl = "no-store"
           /\ Answered(done)
           /\ Success(done.outcome.status)
           /\ done.outcome.body = BodyObject
           /\ done.resp.body = [kind |-> "object", items |-> << <<"routeId", 102>> >>]

C5_Witness ==
    /\ ProxyDone /\ Success(done.resp.status)
    /\ done.ep = "vehicles" /\ done.outcome.body = BodyObject

\* C6 as claimed: what the caller of the routes resource receives is the
\* upstream body with its "routes" envelope removed, or a 502.
envelope_routes(value) ==
    IF value.kind = "object" /\ \E i \in DOMAIN value.items : value.items[i][1] = "routes"
    THEN (CHOOSE i \in DOMAIN value.items : value.items[i][1] = "routes")
    ELSE 0

RouteListDone == done.pc = "done" /\ done.ep = "route_list" /\ IsInt(done.orgId)

RouteIdsInCode == <<102, 191, 200, 201, 282, 292, 302, 900>>

C7_NoRetry ==
    /\ \A t \in Tasks : tasks[t].pc = "awaiting" => Calls(tasks[t].trace) = 1
    /\ ProxyDone => Calls(done.trace) <= 1
    /\ (ProxyDone /\ (UpstreamFailed(done) \/ (Answered(done) /\ ~json(done.outcome.body).ok)))
          => (Calls(done.trace) = 1 /\ done.resp.status >= 400)

C7_Witness ==
    /\ ProxyDone /\ done.outcome.kind = "transport" /\ done.outcome.exc = "ReadTimeout"
    /\ Calls(done.trace) = 1 /\ done.resp.status = 502

\* C8: the global client is non-null after _startup has completed and before
\* _shutdown has run; _shutdown releases it and sets it to null; a _shutdown
\* run with the client already null raises nothing and changes nothing.
C8_LifecycleInv ==
    /\ hookError = FALSE
    /\ lifespan = "new" => client = None
    /\ lifespan = "started" => client = "open"
    /\ lifespan = "closing" => client = "closed"
    /\ lifespan = "stopped" => client = None

\* a step of _shutdown up to its first suspension or return
ShutdownStep == lifespan # "closing" /\ lifespan' \in {"closing", "stopped"}
                /\ <<lifespan, shutdownBranch>>' # <<lifespan, shutdownBranch>>

C8_ClientLifecycle ==
    /\ []C8_LifecycleInv
    /\ [][(ShutdownStep /\ client = None)
             => (client' = None /\ lifespan' = "stopped" /\ shutdownBranch' = "skip"
                 /\ hookError' = hookError /\ tasks' = tasks /\ done' = done)]_vars
    /\ [][(ShutdownStep /\ client # None) => (client' = "closed" /\ lifespan' = "closing")]_vars

\* a request was served, the client was closed, and _shutdown ran again
C8_Witness ==
    /\ lifespan = "stopped" /\ shutdownBranch = "skip"
    /\ client = None /\ hookError = FALSE
    /\ ProxyDone /\ done.resp.status = 200

\* C9: every outbound call of the meta, stops and vehicles handlers has a
\* log entry with its URL and parameters before it, and a log entry with the
\* upstream status or the exception after it.
C9_EveryCallLogged ==
    ProxyDone =>
        \A i \in CallIndices(done.trace) :
            /\ \E j \in 1..(i - 1) :
                  /\ done.trace[j].ev = "log_request"
                  /\ done.trace[j].url = done.trace[i].url
                  /\ done.trace[j].params = done.trace[i].params
            /\ \E k \in (i + 1)..Len(done.trace) :
                  done.trace[k].ev \in {"log_status", "log_exception"}

\* C10: no request handler writes the global client, a step of one request
\* leaves every other request as it is, and each response is a function of
\* the request's own orgId and routeId and of the outcome of its own
\* outbound call.
OwnStatus(r) ==
    CASE r.orgId = None \/ r.routeId = None -> 422
      [] r.orgId # None /\ r.routeId # None /\ (r.orgId = "" \/ r.routeId = "") -> 400
      [] ValidParams(r) /\ r.outcome.kind = "none" -> 500
      [] ValidParams(r) /\ r.outcome.kind = "transport" -> 502
      [] ValidParams(r) /\ Answered(r) /\ ~Success(r.outcome.status) -> 502
      [] ValidParams(r) /\ Answered(r) /\ Success(r.outcome.status)
            /\ r.outcome.body = BodyHtml -> 500
      [] ValidParams(r) /\ Answered(r) /\ Success(r.outcome.status)
            /\ r.outcome.body = BodyObject -> 200

C10_OwnInputsOnly ==
    ProxyDone =>
        /\ done.resp.status = OwnStatus(done)
        /\ done.resp.status = 200 => done.outcome.body = BodyObject /\ done.resp.body.kind = "object"
        /\ done.resp.status # 200 => done.resp.body = JsonNone

HandlerStep == tasks' # tasks \/ done' # done

C10_Isolation ==
    /\ []C10_OwnInputsOnly
    /\ [][HandlerStep => (client' = client /\ lifespan' = lifespan)]_vars
    /\ [][\A t, u \in Tasks : (t # u /\ tasks'[t] # tasks[t]) => tasks'[u] = tasks[u]]_vars

C10_Witness ==
    /\ ProxyDone /\ Answered(done) /\ done.resp.status = 200
    /\ \E t \in Tasks : tasks[t].pc = "awaiting" /\ tasks[t].ep = done.ep
                         /\ tasks[t].orgId # done.orgId

====
